---- MODULE Spec2Model ----
(***************************************************************************)
(* A model of the boat identification result pipeline of boataniQ:         *)
(* src/app.py (provider selection, /api/analyze, /upload,                  *)
(* /api/analyze-text, the history store) and src/boat_ai_analyzer.py (the  *)
(* response normalizer and the summary generator).                         *)
(*                                                                         *)
(* Python values are encoded as follows.  A dict is a function whose       *)
(* domain is its set of keys.  None is the string NoneVal, True and False  *)
(* are the strings "True" and "False" (no modelled reply uses those as     *)
(* real strings).  A confidence value is a record [kind, n]: kind "num" is *)
(* the number n, kind "str" a string that float() parses to n, kind        *)
(* "badstr" a string float() rejects, kind "null" a JSON null.  A summary  *)
(* is the sequence of its lines (summary_parts), '' being <<>>.            *)
(***************************************************************************)
EXTENDS Integers, Sequences, FiniteSets, TLC

VARIABLES
    env,          \* the process environment read by initialize_app
    booted,       \* TRUE once initialize_app has run (module import finished)
    ai_analyzer,  \* global ai_analyzer: "None" or the backend selected
    boat_db,      \* global boat_db: TRUE when the catalog is loaded
    history_file, \* content of analysis_history.json: a sequence of entries
    uploads,      \* files present in the upload folder
    nextId,       \* source of uuid4 values: every draw is fresh
    reqCount,     \* requests served so far
    request,      \* the last request: its route and what it carried
    analysis_result, \* the last request's analysis_result (<<>> when unset)
    response,     \* the response of the last request
    steps,        \* what the last request did, in order
    workers,      \* concurrent history operations in flight
    appended,     \* ids whose add_analysis_to_history call has returned
    deleted,      \* ids some delete_analysis call has asked to remove
    boat_data,    \* catalog record handed to the synthesis functions
    synth,        \* result of the synthesis for boat_data
    raw_reply     \* text of the model reply handed to the normalizer

vars == <<env, booted, ai_analyzer, boat_db, history_file, uploads, nextId,
          reqCount, request, analysis_result, response, steps, workers,
          appended, deleted, boat_data, synth,
                   raw_reply>>

-----------------------------------------------------------------------------
(* Bounds of the model *)

MaxRequests == 2
MaxAppends == 110
MaxConcOps == 3
NumWorkers == 2
MaxReplyLen == 4

(* Constants of the program *)

HistoryCap == 50
ConfidenceFloor == 30
BaseConfidence == 50
ConfidenceCap == 95
TextConfidence == 50

-----------------------------------------------------------------------------
(* Python values *)

NoneVal == "<None>"

Num(n) == [kind |-> "num", n |-> n]
NumStr(n) == [kind |-> "str", n |-> n]
BadStr == [kind |-> "badstr", n |-> 0]
NullConf == [kind |-> "null", n |-> 0]

\* dict.get(k, dflt)
Get(d, k, dflt) == IF k \in DOMAIN d THEN d[k] ELSE dflt

\* d[k] = v
Put(d, k, v) == [x \in (DOMAIN d) \cup {k} |-> IF x = k THEN v ELSE d[x]]

\* truth value of an encoded None / bool / string
Truthy(v) == v \notin {NoneVal, "False", ""}

\* str(n) for the numbers the model uses
IntStr(n) ==
    CASE n = 0 -> "0" [] n = 10 -> "10" [] n = 29 -> "29" [] n = 30 -> "30"
      [] n = 50 -> "50" [] n = 55 -> "55" [] n = 60 -> "60" [] n = 65 -> "65"
      [] n = 70 -> "70" [] n = 75 -> "75" [] n = 80 -> "80" [] n = 85 -> "85"
      [] n = 90 -> "90" [] n = 95 -> "95" [] OTHER -> "n"

\* f"{confidence}" of a confidence value
ConfStr(c) ==
    CASE c.kind = "num" -> IntStr(c.n)
      [] c.kind = "str" -> IntStr(c.n)
      [] c.kind = "badstr" -> "high"
      [] OTHER -> "None"

-----------------------------------------------------------------------------
(* src/boat_ai_analyzer.py: the response normalizer.                       *)
(* A raw reply is a record [kind, raw, obj]: raw is the reply text as a    *)
(* sequence of tokens; kind "json" is a reply whose substring from the     *)
(* first "{" to the last "}" parses as the JSON object obj, kind "text" a  *)
(* reply for which that extraction fails, kind "raise" a backend call (or  *)
(* image decoding) that raises.                                            *)

\* str.lower() of a token
Lower(tok) ==
    CASE tok = "Bavaria" -> "bavaria"
      [] tok = "Catamaran" -> "catamaran"
      [] OTHER -> tok

\* str.title() of a vocabulary entry
Title(tok) ==
    CASE tok = "sailing yacht" -> "Sailing Yacht"
      [] tok = "motorboat" -> "Motorboat"
      [] tok = "cruiser" -> "Cruiser"
      [] tok = "speedboat" -> "Speedboat"
      [] tok = "fishing boat" -> "Fishing Boat"
      [] tok = "catamaran" -> "Catamaran"
      [] tok = "bavaria" -> "Bavaria"
      [] tok = "beneteau" -> "Beneteau"
      [] tok = "jeanneau" -> "Jeanneau"
      [] tok = "princess" -> "Princess"
      [] tok = "sunseeker" -> "Sunseeker"
      [] tok = "azimut" -> "Azimut"
      [] tok = "ferretti" -> "Ferretti"
      [] OTHER -> tok

boat_types == <<"sailing yacht", "motorboat", "cruiser", "speedboat",
                "fishing boat", "catamaran">>

brands == <<"bavaria", "beneteau", "jeanneau", "princess", "sunseeker",
            "azimut", "ferretti">>

\* tokens matching \b(19|20)\d{2}\b
YearTokens == {"1998", "2015"}

\* the JSON members a reply text may carry, one token each; a member token
\* stands for  "key": value  with the comma that separates it
MemberTokens ==
    {"'boat_type': 'Sailing Yacht'", "'confidence': 85", "'confidence': null",
     "'is_valid_image': false"}

\* the vocabulary entries that are substrings of the lower-cased token
Mentions(tok) ==
    IF tok = "'boat_type': 'Sailing Yacht'" THEN {"sailing yacht"}
    ELSE {Lower(tok)}

\* "entry in text_lower"
Occurs(entry, text) == \E i \in 1..Len(text) : entry \in Mentions(text[i])

\* the entry whose occurrence comes first in the text
FirstMatchInTextOrder(list, text, dflt) ==
    LET hits == {p \in 1..Len(text) :
                    \E i \in 1..Len(list) : list[i] \in Mentions(text[p])}
        first == CHOOSE p \in hits : \A q \in hits : p <= q
    IN  IF hits = {} THEN dflt
        ELSE Title(CHOOSE e \in Mentions(text[first]) :
                       \E i \in 1..Len(list) : list[i] = e)

\* for entry in list: if entry in text_lower: ...; break
FirstMatch(list, text, dflt) ==
    IF \E i \in 1..Len(list) : Occurs(list[i], text)
    THEN Title(list[CHOOSE i \in 1..Len(list) :
                   /\ Occurs(list[i], text)
                   /\ \A j \in 1..(i - 1) : ~Occurs(list[j], text)])
    ELSE dflt

\* re.search(...).group(): the leftmost match
FirstYear(text, dflt) ==
    IF \E i \in 1..Len(text) : text[i] \in YearTokens
    THEN text[CHOOSE i \in 1..Len(text) :
                /\ text[i] \in YearTokens
                /\ \A j \in 1..(i - 1) : text[j] \notin YearTokens]
    ELSE dflt

ParseTextResponse(text) ==
    [boat_type |-> FirstMatch(boat_types, text, "Unknown"),
     brand |-> FirstMatch(brands, text, "Unknown"),
     model |-> "Unknown",
     estimated_year |-> FirstYear(text, "Unknown"),
     length_estimate |-> "Unknown",
     width_estimate |-> "Unknown",
     hull_material |-> "Unknown",
     engine_type |-> "Unknown",
     key_features |-> <<>>,
     condition |-> "Unknown",
     price_estimate |-> "Unknown",
     confidence |-> Num(TextConfidence),
     detailed_description |-> text]

\* the except branch of analyze_boat_image_from_bytes
ErrorResult == [error |-> "Error analyzing image", confidence |-> Num(0)]

LowConfidenceReason == "AI confidence too low"
ValidationFailedReason == "Image validation failed"

\* if isinstance(confidence, str): try float(confidence) except: 0
CoerceConfidence(c) ==
    CASE c.kind = "str" -> Num(c.n)
      [] c.kind = "badstr" -> Num(0)
      [] OTHER -> c

\* "confidence < 30" raises TypeError on None
CompareRaises(c) == c.kind = "null"

BelowFloor(c) == c.n < ConfidenceFloor

AddMetadata(parsed, raw) ==
    Put(Put(Put(parsed, "raw_response", raw),
            "model_used", "gemini-1.5-flash"),
        "analyzer_type", "regular_gemini")

DefaultValidationFields(r) ==
    LET r2 == IF "is_valid_image" \notin DOMAIN r
              THEN Put(r, "is_valid_image", "True") ELSE r
    IN  IF "rejection_reason" \notin DOMAIN r2
        THEN Put(r2, "rejection_reason", NoneVal) ELSE r2

\* the normalizer without its lines 211-216: no reason is filled in
MarkRejectedNever(r, errorResult) == r

\* lines 202-218: fill in a rejection reason; an exception ends in the
\* error result of the except branch
MarkRejected(r, errorResult) ==
    LET confidence == CoerceConfidence(Get(r, "confidence", Num(0)))
        invalid == ~Truthy(Get(r, "is_valid_image", "True"))
        noReason == ~Truthy(Get(r, "rejection_reason", NoneVal))
    IN  IF invalid
        THEN IF noReason
             THEN IF CompareRaises(confidence) THEN errorResult
                  ELSE Put(r, "rejection_reason",
                           IF BelowFloor(confidence) THEN LowConfidenceReason
                           ELSE ValidationFailedReason)
             ELSE r
        ELSE IF CompareRaises(confidence) THEN errorResult
             ELSE IF BelowFloor(confidence) /\ noReason
                  THEN Put(r, "rejection_reason", LowConfidenceReason)
                  ELSE r

\* str.find(tok): the 0-based index of the first occurrence, else -1
Find(text, tok) ==
    IF \E i \in 1..Len(text) : text[i] = tok
    THEN (CHOOSE i \in 1..Len(text) :
              /\ text[i] = tok
              /\ \A j \in 1..(i - 1) : text[j] # tok) - 1
    ELSE -1

\* str.rfind(tok): the 0-based index of the last occurrence, else -1
RFind(text, tok) ==
    IF \E i \in 1..Len(text) : text[i] = tok
    THEN (CHOOSE i \in 1..Len(text) :
              /\ text[i] = tok
              /\ \A j \in (i + 1)..Len(text) : text[j] # tok) - 1
    ELSE -1

\* text[start:end] for 0 <= start, 0 <= end
Slice(text, start, end) ==
    IF start >= end THEN <<>> ELSE SubSeq(text, start + 1, end)

\* the key and the value of a member token
MemberKey(tok) ==
    CASE tok = "'boat_type': 'Sailing Yacht'" -> "boat_type"
      [] tok = "'is_valid_image': false" -> "is_valid_image"
      [] OTHER -> "confidence"

MemberValue(tok) ==
    CASE tok = "'boat_type': 'Sailing Yacht'" -> "Sailing Yacht"
      [] tok = "'is_valid_image': false" -> "False"
      [] tok = "'confidence': 85" -> Num(85)
      [] OTHER -> NullConf

\* json.loads raises JSONDecodeError unless the string is an object: "{",
\* members, "}"
JsonDecodeError(str) ==
    \/ Len(str) < 2
    \/ str[1] # "{"
    \/ str[Len(str)] # "}"
    \/ \E i \in 2..(Len(str) - 1) : str[i] \notin MemberTokens

\* the dict json.loads builds: of a repeated key the last member stays
RECURSIVE LoadMembers(_, _, _)
LoadMembers(str, i, obj) ==
    IF i > Len(str) - 1 THEN obj
    ELSE LoadMembers(str, i + 1, Put(obj, MemberKey(str[i]),
                                     MemberValue(str[i])))

JsonLoads(str) == LoadMembers(str, 2, <<>>)

\* lines 174-189: the reply the structured extraction makes of the text
StructuredExtraction(text) ==
    LET start_idx == Find(text, "{")
        end_idx == RFind(text, "}") + 1
        json_str == Slice(text, start_idx, end_idx)
    IN  IF start_idx # -1 /\ end_idx # -1
        THEN IF JsonDecodeError(json_str)
             THEN [kind |-> "text", raw |-> text, obj |-> <<>>]
             ELSE [kind |-> "json", raw |-> text, obj |-> JsonLoads(json_str)]
        ELSE [kind |-> "text", raw |-> text, obj |-> <<>>]

analyze_boat_image_from_bytes(reply) ==
    IF reply.kind = "raise" THEN ErrorResult
    ELSE LET parsed == IF reply.kind = "json" THEN reply.obj
                       ELSE ParseTextResponse(reply.raw)
         IN  MarkRejected(DefaultValidationFields(AddMetadata(parsed, reply.raw)),
                          ErrorResult)

\* the except branch of analyze_boat_image
ErrorResultAt(image_path) == Put(ErrorResult, "image_path", image_path)

\* the path entry point without the validation defaults and the rejection
\* marking of lines 119-140
analyze_boat_image_unmarked(reply, image_path) ==
    IF reply.kind = "raise" THEN ErrorResultAt(image_path)
    ELSE LET parsed == IF reply.kind = "json" THEN reply.obj
                       ELSE ParseTextResponse(reply.raw)
         IN  AddMetadata(Put(parsed, "image_path", image_path), reply.raw)

analyze_boat_image(reply, image_path) ==
    IF reply.kind = "raise" THEN ErrorResultAt(image_path)
    ELSE LET parsed == IF reply.kind = "json" THEN reply.obj
                       ELSE ParseTextResponse(reply.raw)
         IN  MarkRejected(
                 DefaultValidationFields(
                     AddMetadata(Put(parsed, "image_path", image_path),
                                 reply.raw)),
                 ErrorResultAt(image_path))

\* keys get_analysis_summary reads with analysis_result[key] once
\* analysis_result.get(key) != 'Unknown': a missing key raises KeyError
SummaryKeys == <<"boat_type", "brand", "model", "estimated_year",
                 "length_estimate", "width_estimate", "condition",
                 "price_estimate">>

SummaryRaises(r) ==
    /\ "error" \notin DOMAIN r
    /\ \E i \in 1..Len(SummaryKeys) : SummaryKeys[i] \notin DOMAIN r

SummaryPart(r, key, label) ==
    IF r[key] # "Unknown" THEN <<[label |-> label, text |-> <<r[key]>>]>>
    ELSE <<>>

\* the summary_parts of get_analysis_summary, when no KeyError is raised
get_analysis_summary(r) ==
    IF "error" \in DOMAIN r
    THEN <<[label |-> "Analysis Error", text |-> <<r["error"]>>]>>
    ELSE SummaryPart(r, "boat_type", "Boat Type")
         \o SummaryPart(r, "brand", "Brand")
         \o SummaryPart(r, "model", "Model")
         \o SummaryPart(r, "estimated_year", "Estimated Year")
         \o SummaryPart(r, "length_estimate", "Estimated Length")
         \o SummaryPart(r, "width_estimate", "Estimated Width")
         \o (IF Get(r, "key_features", <<>>) # <<>>
             THEN <<[label |-> "Key Features", text |-> r["key_features"]]>>
             ELSE <<>>)
         \o SummaryPart(r, "condition", "Condition")
         \o SummaryPart(r, "price_estimate", "Price Estimate")
         \o <<[label |-> "Analysis Confidence",
               text |-> <<ConfStr(Get(r, "confidence", Num(0)))>>]>>
         \o (IF Get(r, "detailed_description", <<>>) # <<>>
             THEN <<[label |-> "Detailed Analysis",
                     text |-> r["detailed_description"]]>>
             ELSE <<>>)

-----------------------------------------------------------------------------
(* src/app.py, initialize_app: the analyzer provider selection.            *)
(* An environment is a record: blob is the state of GCP_CREDENTIALS_JSON   *)
(* ("absent", "malformed" when json.loads rejects it, "wellformed"),       *)
(* blobCtor / fileCtor / geminiCtor what the constructor does when called  *)
(* ("ok", "raises", and for the blob constructor "raises_json": it raises  *)
(* json.JSONDecodeError), fileExists whether the credentials path exists,  *)
(* apiKey whether GEMINI_API_KEY is set, csv whether the catalog loads.    *)

Envs ==
    [blob : {"absent", "malformed", "wellformed"},
     blobCtor : {"ok", "raises", "raises_json"},
     fileExists : BOOLEAN,
     fileCtor : {"ok", "raises"},
     apiKey : BOOLEAN,
     geminiCtor : {"ok", "raises"},
     csv : BOOLEAN]

\* BoatVertexAIAnalyzer(credentials_path=...) inside the JSONDecodeError
\* handler (lines 147-148) and in the elif branch (lines 154-156); an
\* exception leaves ai_analyzer None (outer except, line 160)
VertexFromFile(e) ==
    IF e.fileExists /\ e.fileCtor = "ok" THEN "vertex_file" ELSE "None"

\* lines 125-164: the Vertex AI attempts
TryVertex(e) ==
    IF e.blob # "absent"
    THEN IF e.blob = "malformed" THEN VertexFromFile(e)
         ELSE CASE e.blobCtor = "ok" -> "vertex_env"
                [] e.blobCtor = "raises_json" -> VertexFromFile(e)
                [] OTHER -> "None"
    ELSE VertexFromFile(e)

\* lines 167-178: the fallback to the API-key backend
TryGemini(e, current) ==
    IF current = "None"
    THEN IF e.apiKey /\ e.geminiCtor = "ok" THEN "gemini" ELSE "None"
    ELSE current

SelectAnalyzer(e) == TryGemini(e, TryVertex(e))

InitializeApp ==
    /\ ~booted
    /\ booted' = TRUE
    /\ boat_db' = env.csv
    /\ ai_analyzer' = SelectAnalyzer(env)
    /\ UNCHANGED <<env, history_file, uploads, nextId, reqCount, request,
                   analysis_result, response, steps, workers, appended,
                   deleted, boat_data, synth,
                   raw_reply>>

-----------------------------------------------------------------------------
(* src/app.py: the history store.  readOk / writeOk say whether the read   *)
(* or the write of the history file succeeds; a missing file and a file    *)
(* holding [] are both the empty sequence.                                 *)

load_analysis_history(file, readOk) == IF readOk THEN file ELSE <<>>

HistoryIoEscapesOnFailure(readOk, writeOk) == ~readOk \/ ~writeOk

\* whether a failed read or write of the history file raises out of
\* load_analysis_history / save_analysis_history: both catch Exception
\* (lines 52-54 and 62-63), so nothing escapes
HistoryIoEscapes(readOk, writeOk) == FALSE

save_analysis_history(file, history, writeOk) ==
    IF writeOk THEN history ELSE file

HistoryEntry(id, now, analysis_data) ==
    [id |-> id,
     timestamp |-> now,
     boat_type |-> Get(analysis_data, "boat_type", "Unknown"),
     brand |-> Get(analysis_data, "brand", "Unknown"),
     model |-> Get(analysis_data, "model", "Unknown"),
     confidence |-> Get(analysis_data, "confidence", Num(0)),
     image_name |-> Get(analysis_data, "image_name", "Unknown"),
     summary |-> Get(analysis_data, "summary", <<>>),
     analysis |-> analysis_data]

\* history.insert(0, history_entry)
InsertFront(history, entry) == <<entry>> \o history

CapHistoryKeepsOneMore(history) ==
    IF Len(history) > HistoryCap + 1 THEN SubSeq(history, 1, HistoryCap + 1)
    ELSE history

\* if len(history) > 50: history = history[:50]
CapHistory(history) ==
    IF Len(history) > HistoryCap THEN SubSeq(history, 1, HistoryCap)
    ELSE history

\* the value add_analysis_to_history hands to save_analysis_history
HistoryAfterAdd(loaded, entry) == CapHistory(InsertFront(loaded, entry))

add_analysis_to_history(file, analysis_data, id, now, readOk, writeOk) ==
    LET entry == HistoryEntry(id, now, analysis_data)
        history == HistoryAfterAdd(load_analysis_history(file, readOk), entry)
    IN  [file |-> save_analysis_history(file, history, writeOk),
         entry |-> entry]

\* [item for item in history if item['id'] != history_id]
WithoutId(history, history_id) ==
    LET Keep(item) == item.id # history_id
    IN  SelectSeq(history, Keep)

\* the file after delete_analysis(history_id)
delete_analysis(file, history_id, readOk, writeOk) ==
    save_analysis_history(
        file, WithoutId(load_analysis_history(file, readOk), history_id),
        writeOk)

Ids(history) == {history[i].id : i \in 1..Len(history)}

-----------------------------------------------------------------------------
(* src/app.py: the catalog synthesis.  A catalog record is a dict of       *)
(* strings; "NaN" is a pandas NaN.                                         *)

\* pd.isna(value) or value is None or str(value).lower() == 'nan'
IsNaN(value) == value \in {NoneVal, "NaN", "nan"}

clean_single_boat_data(record) ==
    [key \in DOMAIN record |->
        IF IsNaN(record[key]) THEN NoneVal ELSE record[key]]

\* "if boat_data.get(key):"
Has(b, key) == Truthy(Get(b, key, NoneVal))

\* the list built by "if boat_data.get(k): xs.append(boat_data[k])"
Collected(b, keys) ==
    LET Present(key) == Has(b, key)
        Value(key) == b[key]
        kept == SelectSeq(keys, Present)
    IN  [i \in 1..Len(kept) |-> Value(kept[i])]

extract_key_features(b) ==
    Collected(b, <<"features", "equipment", "special_features">>)

extract_distinctive_elements(b) ==
    Collected(b, <<"design_features", "unique_selling_points">>)

\* "if boat_data.get(key): confidence += points"
Boost(b, key, points) == IF Has(b, key) THEN points ELSE 0

Min(a, b) == IF a < b THEN a ELSE b

calculate_confidence_uncapped(b) ==
    BaseConfidence
      + Boost(b, "brand", 10) + Boost(b, "model", 10)
      + Boost(b, "year_built", 10) + Boost(b, "length", 5)
      + Boost(b, "price", 5) + Boost(b, "engine_type", 5)
      + Boost(b, "hull_type", 5)

\* the floor-free score: the boosts alone, without the base of 50
calculate_confidence_without_base(b) ==
    Min(Boost(b, "brand", 10) + Boost(b, "model", 10)
          + Boost(b, "year_built", 10) + Boost(b, "length", 5)
          + Boost(b, "price", 5) + Boost(b, "engine_type", 5)
          + Boost(b, "hull_type", 5),
        ConfidenceCap)

calculate_confidence(b) ==
    Min(BaseConfidence
          + Boost(b, "brand", 10) + Boost(b, "model", 10)
          + Boost(b, "year_built", 10) + Boost(b, "length", 5)
          + Boost(b, "price", 5) + Boost(b, "engine_type", 5)
          + Boost(b, "hull_type", 5),
        ConfidenceCap)

Fragment(b, key, lead) == IF Has(b, key) THEN <<lead, b[key]>> ELSE <<>>

\* desc_parts, flattened: each fragment is its lead-in and the value
create_detailed_description(b) ==
    Fragment(b, "title", "This is a")
    \o Fragment(b, "boat_type", "classified as a")
    \o Fragment(b, "year_built", "built in")
    \o Fragment(b, "length", "with a length of")
    \o Fragment(b, "description", "Description:")

Clue(b, key, label) ==
    IF Has(b, key) THEN <<[label |-> label, value |-> b[key]]>> ELSE <<>>

create_identification_clues_model_first(b) ==
    Clue(b, "model", "Model") \o Clue(b, "brand", "Brand")
    \o Clue(b, "year_built", "Year")

\* the list clues, joined with "; " by the code
create_identification_clues(b) ==
    Clue(b, "brand", "Brand") \o Clue(b, "model", "Model")
    \o Clue(b, "year_built", "Year")

TechnicalFields ==
    {"engine_power", "fuel_capacity", "water_capacity", "max_speed", "berths"}

extract_technical_specs(b) ==
    [key \in {k \in TechnicalFields : Has(b, k)} |-> b[key]]

create_design_analysis(b) ==
    [hull_design |-> Get(b, "hull_design", "Design information not available"),
     cabin_layout |->
         Get(b, "cabin_layout", "Cabin layout information not available"),
     deck_features |->
         Get(b, "deck_features", "Deck features information not available"),
     aerodynamics |->
         Get(b, "aerodynamics", "Aerodynamics information not available")]

create_market_positioning(b) ==
    [target_market |->
         Get(b, "target_market", "Market information not available"),
     competitors |->
         Get(b, "competitors", "Competitor information not available"),
     unique_selling_points |->
         Get(b, "unique_selling_points", "USP information not available"),
     ideal_use_cases |->
         Get(b, "ideal_use_cases", "Use case information not available")]

create_historical_context(b) ==
    [design_era |-> Get(b, "design_era", "Era information not available"),
     manufacturer_history |->
         Get(b, "manufacturer_history", "Manufacturer history not available"),
     model_evolution |->
         Get(b, "model_evolution", "Model evolution not available"),
     market_reception |->
         Get(b, "market_reception", "Market reception not available")]

create_analysis_from_boat_data(b) ==
    [boat_type |-> Get(b, "boat_type", "Unknown"),
     brand |-> Get(b, "brand", "Unknown"),
     model |-> Get(b, "model", "Unknown"),
     model_line |-> Get(b, "model_line", "Unknown"),
     estimated_year |-> Get(b, "year_built", "Unknown"),
     length_estimate |-> Get(b, "length", "Unknown"),
     width_estimate |-> Get(b, "width", "Unknown"),
     hull_material |-> Get(b, "hull_material", "Unknown"),
     engine_type |-> Get(b, "engine_type", "Unknown"),
     hull_type |-> Get(b, "hull_type", "Unknown"),
     key_features |-> extract_key_features(b),
     distinctive_elements |-> extract_distinctive_elements(b),
     condition |-> "Database Entry",
     price_estimate |-> Get(b, "price", "Unknown"),
     confidence |-> Num(calculate_confidence(b)),
     detailed_description |-> create_detailed_description(b),
     identification_clues |-> create_identification_clues(b),
     technical_specs |-> extract_technical_specs(b),
     design_analysis |-> create_design_analysis(b),
     market_positioning |-> create_market_positioning(b),
     historical_context |-> create_historical_context(b),
     model_used |-> "database-analysis",
     analyzer_type |-> "text_search"]

-----------------------------------------------------------------------------
(* src/app.py: the request handlers.  A handler is an operator from the    *)
(* request's inputs and the state it reads to an outcome                   *)
(* [response, result, steps, file, uploads]: the response returned, the    *)
(* handler's analysis_result, the steps the request ran, in order, and the *)
(* history file and the upload folder it leaves.                           *)

FileName == "boat.jpg"

\* os.path.join(UPLOAD_FOLDER, secure_filename(file.filename)): one path per
\* file name (uid 0); /upload prefixes a fresh uuid4 instead
TempPath == [name |-> FileName, uid |-> 0]
UniquePath(id) == [name |-> FileName, uid |-> id]

\* a response: kind names its shape, success is the 'success' field
\* ("absent" when the body carries only 'error')
Resp(status, success, kind) ==
    [status |-> status, success |-> success, kind |-> kind,
     reason |-> NoneVal, confidence |-> Num(0), history_id |-> 0,
     analysis |-> <<>>, summary |-> <<>>, history |-> <<>>, total |-> 0]

Outcome(resp, result, ran, file, ups) ==
    [response |-> resp, result |-> result, steps |-> ran, file |-> file,
     uploads |-> ups]

\* the checks on request.files shared by /upload and /api/analyze
FileCheck(upload) ==
    CASE upload = "missing" -> Resp(400, "absent", "no_file")
      [] upload = "empty_name" -> Resp(400, "absent", "no_file_selected")
      [] OTHER -> Resp(400, "absent", "invalid_file_type")

\* the except clause of a handler
ExceptionResponse == Resp(500, "absent", "exception")

\* lines 470-492: the Stage 0 rejection
Stage0Response(validation) ==
    [Resp(400, "False", "validation") EXCEPT
        !.reason = Get(validation, "rejection_reason",
                       "Image validation failed")]

\* lines 519-528
BackendErrorResponse(result) ==
    [Resp(500, "False", "backend_error") EXCEPT !.reason = result["error"]]

Stage0RejectsNever(validation) == FALSE

\* line 470: "if not validation_result['can_proceed']"
Stage0Rejects(validation) == ~Truthy(validation["can_proceed"])

IsErrorResultNever(result) == FALSE

\* line 519: "if 'error' in analysis_result"
IsErrorResult(result) == "error" \in DOMAIN result

Stage1RejectsNever(result) == FALSE

\* line 531: the Stage 1 condition
Stage1Rejects(result) ==
    \/ ~Truthy(Get(result, "is_valid_image", "True"))
    \/ Truthy(Get(result, "rejection_reason", NoneVal))

\* lines 532-552
Stage1Response(result) ==
    [Resp(400, "False", "ai_validation") EXCEPT
        !.reason = Get(result, "rejection_reason",
                       "AI determined image is not suitable"),
        !.confidence = CoerceConfidence(Get(result, "confidence", Num(0)))]

\* lines 562-569
Stage2Response(confidence) ==
    [Resp(400, "False", "low_confidence") EXCEPT !.confidence = confidence]

UnavailableResponse == Resp(500, "absent", "analyzer_unavailable")

\* a backend call that is repeated once when it raises
BackendCallsRetrying(reply) ==
    IF reply.kind = "raise" THEN <<"backend", "backend">> ELSE <<"backend">>

\* the invocations of self.model.generate_content one analyzer call makes:
\* line 91 / line 169, outside any loop, the except clause returning at once
BackendCalls(reply) == <<"backend">>

\* lines 580-609: summary, history insertion and the success response
Admit(result, file, ups, ran, id, now, readOk, writeOk) ==
    IF SummaryRaises(result)
    THEN Outcome(ExceptionResponse, result, Append(ran, "summary"), file, ups)
    ELSE IF HistoryIoEscapes(readOk, writeOk)
    THEN Outcome(ExceptionResponse, result, Append(ran, "summary"), file, ups)
    ELSE LET summary == get_analysis_summary(result)
             named == Put(result, "image_name", FileName)
             added == add_analysis_to_history(file, named, id, now,
                                              readOk, writeOk)
         IN  Outcome([Resp(200, "True", "ok") EXCEPT
                          !.analysis = named,
                          !.summary = summary,
                          !.history_id = added.entry.id],
                     named, ran \o <<"summary", "history">>, added.file, ups)

\* lines 512-578: the backend call, the two gate stages, the cleanup
Gate(ai, reply, file, ups, ran, id, now, readOk, writeOk) ==
    IF ai # "None"
    THEN LET result == analyze_boat_image_from_bytes(reply)
             ran2 == ran \o BackendCalls(reply)
             confidence == CoerceConfidence(Get(result, "confidence", Num(0)))
         IN  IF IsErrorResult(result)
             THEN Outcome(BackendErrorResponse(result), result, ran2, file, ups)
             ELSE IF Stage1Rejects(result)
             THEN Outcome(Stage1Response(result), result, ran2, file, ups)
             ELSE IF CompareRaises(confidence)
             THEN Outcome(ExceptionResponse, result, ran2, file, ups)
             ELSE IF BelowFloor(confidence)
             THEN Outcome(Stage2Response(confidence), result, ran2, file, ups)
             ELSE Admit(result, file, ups \ {TempPath},
                        Append(ran2, "cleanup"), id, now, readOk, writeOk)
    ELSE Outcome(UnavailableResponse, <<>>, ran, file, ups)

\* in: [upload, preprocessor, validation, reply, readOk, writeOk]
analyze_image(in, ai, file, ups, id, now) ==
    IF in.upload # "ok"
    THEN Outcome(FileCheck(in.upload), <<>>, <<>>, file, ups)
    ELSE IF in.preprocessor = "validate_raises"
    THEN Outcome(ExceptionResponse, <<>>, <<"validate">>, file, ups)
    ELSE IF Stage0Rejects(in.validation)
    THEN Outcome(Stage0Response(in.validation), <<>>, <<"validate">>, file,
                 ups)
    ELSE IF in.preprocessor = "preprocess_raises"
    THEN Outcome(ExceptionResponse, <<>>, <<"validate", "preprocess">>, file,
                 ups)
    ELSE Gate(ai, in.reply, file, ups \cup {TempPath},
              <<"validate", "preprocess", "tempfile">>, id, now,
              in.readOk, in.writeOk)

\* lines 267-319; in: [upload, reply]
upload_file(in, ai, file, ups, id) ==
    IF in.upload # "ok"
    THEN Outcome(FileCheck(in.upload), <<>>, <<>>, file, ups)
    ELSE LET filepath == UniquePath(id)
             saved == ups \cup {filepath}
         IN  IF ai # "None"
             THEN LET result == analyze_boat_image(in.reply, filepath)
                      ran == <<"save">> \o BackendCalls(in.reply)
                                 \o <<"summary", "cleanup">>
                  IN  IF SummaryRaises(result)
                      THEN Outcome(ExceptionResponse, result, ran, file,
                                   saved \ {filepath})
                      ELSE Outcome([Resp(200, "True", "ok") EXCEPT
                                       !.analysis = result,
                                       !.summary = get_analysis_summary(result)],
                                   result, ran, file, saved \ {filepath})
             ELSE Outcome(UnavailableResponse, <<>>, <<"save">>, file, saved)

\* f"Text Search: {boat_data.get('title', 'Unknown Boat')}"
TextSearchName(b) ==
    LET title == Get(b, "title", "Unknown Boat")
    IN  CASE title = "Bavaria 34" -> "Text Search: Bavaria 34"
          [] title = "Princess V40" -> "Text Search: Princess V40"
          [] title = NoneVal -> "Text Search: None"
          [] OTHER -> "Text Search: Unknown Boat"

\* /api/analyze-text with the Stage 2 answer given to every record found
analyze_boat_text_gated(in, ai, db, file, ups, id, now) ==
    IF ai = "None" \/ ~db \/ ~Truthy(in.boat_id) \/ in.lookup = <<>>
    THEN Outcome(UnavailableResponse, <<>>, <<>>, file, ups)
    ELSE LET result == create_analysis_from_boat_data(
                           clean_single_boat_data(in.lookup[1]))
         IN  Outcome(Stage2Response(result["confidence"]), result,
                     <<"lookup", "synthesis">>, file, ups)

\* lines 872-948; in: [boat_id, lookup, readOk, writeOk], lookup being what
\* the catalog store answers: <<>> (no record) or <<record>>
analyze_boat_text(in, ai, db, file, ups, id, now) ==
    IF ai = "None"
    THEN Outcome(UnavailableResponse, <<>>, <<>>, file, ups)
    ELSE IF ~db
    THEN Outcome(Resp(500, "absent", "database_unavailable"), <<>>, <<>>,
                 file, ups)
    ELSE IF ~Truthy(in.boat_id)
    THEN Outcome(Resp(400, "absent", "boat_id_required"), <<>>, <<>>, file, ups)
    ELSE IF in.lookup = <<>>
    THEN Outcome(Resp(404, "absent", "boat_not_found"), <<>>, <<"lookup">>,
                 file, ups)
    ELSE LET b == clean_single_boat_data(in.lookup[1])
             result == create_analysis_from_boat_data(b)
             summary == get_analysis_summary(result)
             tagged == Put(Put(Put(result, "image_name", TextSearchName(b)),
                               "search_mode", "True"),
                           "boat_id", in.boat_id)
             added == add_analysis_to_history(file, tagged, id, now,
                                              in.readOk, in.writeOk)
         IN  IF SummaryRaises(result)
             THEN Outcome(ExceptionResponse, result,
                          <<"lookup", "synthesis", "summary">>, file, ups)
             ELSE IF HistoryIoEscapes(in.readOk, in.writeOk)
             THEN Outcome(ExceptionResponse, tagged,
                          <<"lookup", "synthesis", "summary">>, file, ups)
             ELSE Outcome([Resp(200, "True", "ok") EXCEPT
                              !.analysis = tagged,
                              !.summary = summary,
                              !.history_id = added.entry.id],
                          tagged,
                          <<"lookup", "synthesis", "summary", "history">>,
                          added.file, ups)

\* lines 857-870; in: [history_id, readOk, writeOk]
delete_analysis_route(in, file, ups) ==
    IF HistoryIoEscapes(in.readOk, in.writeOk)
    THEN Outcome(ExceptionResponse, <<>>, <<"load">>, file, ups)
    ELSE Outcome(Resp(200, "True", "deleted"), <<>>, <<"load", "save">>,
                 delete_analysis(file, in.history_id, in.readOk, in.writeOk),
                 ups)

\* lines 827-838; in: [readOk]
get_analysis_history(in, file, ups) ==
    IF HistoryIoEscapes(in.readOk, TRUE)
    THEN Outcome(ExceptionResponse, <<>>, <<"load">>, file, ups)
    ELSE LET history == load_analysis_history(file, in.readOk)
         IN  Outcome([Resp(200, "True", "history") EXCEPT
                          !.history = history,
                          !.total = Len(history)],
                     <<>>, <<"load">>, file, ups)

\* lines 840-855; in: [history_id, readOk]
get_analysis_by_id(in, file, ups) ==
    IF HistoryIoEscapes(in.readOk, TRUE)
    THEN Outcome(ExceptionResponse, <<>>, <<"load">>, file, ups)
    ELSE LET history == load_analysis_history(file, in.readOk)
             Wanted(item) == item.id = in.history_id
             found == SelectSeq(history, Wanted)
         IN  IF found # <<>>
             THEN Outcome([Resp(200, "True", "found") EXCEPT
                              !.analysis = found[1]],
                          <<>>, <<"load">>, file, ups)
             ELSE Outcome(Resp(404, "absent", "analysis_not_found"), <<>>,
                          <<"load">>, file, ups)

-----------------------------------------------------------------------------
(* The inputs the model draws requests from *)

FullObj ==
    [boat_type |-> "Sailing Yacht", brand |-> "Bavaria", model |-> "34",
     estimated_year |-> "2015", length_estimate |-> "10 m",
     width_estimate |-> "3 m", hull_material |-> "Fiberglass",
     engine_type |-> "Sail", key_features |-> <<"mast">>,
     condition |-> "Good", price_estimate |-> "Unknown",
     detailed_description |-> <<"a", "sailing yacht">>]

\* a structured reply carrying only some of the fields
PartialObj == [boat_type |-> "Sailing Yacht"]

\* an optional field: <<>> leaves the key out, <<v>> sets it to v
With(obj, key, opt) == IF opt = <<>> THEN obj ELSE Put(obj, key, opt[1])

ConfidenceOpts ==
    {<<>>, <<Num(29)>>, <<Num(30)>>, <<NumStr(85)>>, <<BadStr>>, <<NullConf>>}
ValidOpts == {<<>>, <<"True">>, <<"False">>}
ReasonOpts == {<<>>, <<NoneVal>>, <<"">>, <<"This does not appear to be a boat">>}

JsonObjs ==
    {With(With(With(FullObj, "confidence", c), "is_valid_image", v),
          "rejection_reason", r) :
        c \in ConfidenceOpts, v \in ValidOpts, r \in ReasonOpts}
    \cup {With(PartialObj, "confidence", c) : c \in {<<Num(85)>>, <<Num(29)>>}}

JsonReply(obj) == [kind |-> "json", raw |-> <<"{...}">>, obj |-> obj]
TextReply(text) == [kind |-> "text", raw |-> text, obj |-> <<>>]
RaiseReply == [kind |-> "raise", raw |-> <<>>, obj |-> <<>>]

Replies ==
    {JsonReply(obj) : obj \in JsonObjs}
    \cup {TextReply(<<"a", "Bavaria", "sailing yacht">>),
          TextReply(<<"nothing", "to", "report">>)}
    \cup {RaiseReply}

ValidationPass == [can_proceed |-> "True"]
ValidationRejects ==
    {[can_proceed |-> "False"],
     [can_proceed |-> "False", rejection_reason |-> "Image is too blurry"]}

BadUploads == {"missing", "empty_name", "bad_ext"}

AnalyzeIn(upload, preprocessor, validation, reply) ==
    [upload |-> upload, preprocessor |-> preprocessor,
     validation |-> validation, reply |-> reply, readOk |-> TRUE,
     writeOk |-> TRUE]

\* every request to /api/analyze, inputs the handler never reads held fixed
AnalyzeInputs ==
    {AnalyzeIn(u, "ok", ValidationPass, RaiseReply) : u \in BadUploads}
    \cup {AnalyzeIn("ok", p, ValidationPass, RaiseReply) :
            p \in {"validate_raises", "preprocess_raises"}}
    \cup {AnalyzeIn("ok", "ok", v, RaiseReply) : v \in ValidationRejects}
    \cup {AnalyzeIn("ok", "ok", ValidationPass, r) : r \in Replies}

\* whether the read and the write of the history file succeed
IoOutcomes == [readOk : BOOLEAN, writeOk : BOOLEAN]
IoFine == [readOk |-> TRUE, writeOk |-> TRUE]

\* the outcomes of a handler: the history file is read and written only by
\* a request that reaches the history store
Outcomes(Handler(_), in) ==
    LET fine == Handler(in)
    IN  IF "history" \in {fine.steps[i] : i \in 1..Len(fine.steps)}
        THEN {[out |-> Handler([in EXCEPT !.readOk = io.readOk,
                                          !.writeOk = io.writeOk]),
               io |-> io] : io \in IoOutcomes}
        ELSE {[out |-> fine, io |-> IoFine]}

UploadInputs ==
    {[upload |-> u, reply |-> RaiseReply] : u \in BadUploads}
    \cup {[upload |-> "ok", reply |-> r] : r \in Replies}

CatalogRecords ==
    {[title |-> "Bavaria 34", brand |-> "Bavaria", model |-> "34",
      year_built |-> "2015"],
     [title |-> "Princess V40", boat_type |-> "Motorboat",
      brand |-> "Princess", model |-> "NaN", year_built |-> "2008",
      length |-> "12.5", price |-> "NaN", engine_type |-> "Inboard",
      hull_type |-> "Planing", features |-> "Bow thruster",
      hull_design |-> "NaN"],
     [boat_type |-> "Cruiser"]}

TextInputs ==
    {[boat_id |-> "", lookup |-> <<>>, readOk |-> TRUE, writeOk |-> TRUE],
     [boat_id |-> "b404", lookup |-> <<>>, readOk |-> TRUE, writeOk |-> TRUE]}
    \cup {[boat_id |-> "b1", lookup |-> <<rec>>, readOk |-> TRUE,
           writeOk |-> TRUE] : rec \in CatalogRecords}

\* the environments the request model starts from: no credentials at all,
\* and GEMINI_API_KEY alone; each with and without the catalog
ServingEnvs ==
    {e \in Envs : /\ e.blob = "absent" /\ e.blobCtor = "ok" /\ ~e.fileExists
                  /\ e.fileCtor = "ok" /\ e.geminiCtor = "ok"}

-----------------------------------------------------------------------------
(* The request model: initialize_app, then requests one at a time *)

Range(seq) == {seq[i] : i \in 1..Len(seq)}

NoRequest ==
    [route |-> "none", upload |-> "ok", validation |-> <<>>,
     backend |-> "none", history_id |-> 0, readOk |-> TRUE, writeOk |-> TRUE]

\* what a request handler read of its inputs; backend is the kind of the
\* reply when the handler called the analyzer
Seen(route, upload, validation, backend, history_id, readOk, writeOk) ==
    [route |-> route, upload |-> upload, validation |-> validation,
     backend |-> backend, history_id |-> history_id, readOk |-> readOk,
     writeOk |-> writeOk]

Called(out, reply) ==
    IF "backend" \in Range(out.steps) THEN reply.kind ELSE "none"

Idle == [w \in {} |-> 0]

Init ==
    /\ env \in ServingEnvs
    /\ booted = FALSE
    /\ ai_analyzer = "None"
    /\ boat_db = FALSE
    /\ history_file = <<>>
    /\ uploads = {}
    /\ nextId = 1
    /\ reqCount = 0
    /\ request = NoRequest
    /\ analysis_result = <<>>
    /\ response = Resp(0, "absent", "none")
    /\ steps = <<>>
    /\ workers = Idle
    /\ appended = {}
    /\ deleted = {}
    /\ boat_data = <<>>
    /\ synth = <<>>
    /\ raw_reply = <<>>

\* the state a handler leaves
Served(out) ==
    /\ analysis_result' = out.result
    /\ response' = out.response
    /\ steps' = out.steps
    /\ history_file' = out.file
    /\ uploads' = out.uploads
    /\ reqCount' = reqCount + 1
    /\ UNCHANGED <<env, booted, ai_analyzer, boat_db, workers, appended,
                   deleted, boat_data, synth,
                   raw_reply>>

AnalyzeImage ==
    /\ booted
    /\ reqCount < MaxRequests
    /\ \E in \in AnalyzeInputs :
         LET Handler(i) == analyze_image(i, ai_analyzer, history_file, uploads,
                                         nextId, reqCount + 1)
         IN  \E o \in Outcomes(Handler, in) :
               /\ Served(o.out)
               /\ nextId' = IF "history" \in Range(o.out.steps)
                             THEN nextId + 1 ELSE nextId
               /\ request' =
                    Seen("analyze", in.upload,
                         IF "validate" \in Range(o.out.steps)
                            /\ in.preprocessor # "validate_raises"
                         THEN in.validation ELSE <<>>,
                         Called(o.out, in.reply), 0, o.io.readOk,
                         o.io.writeOk)

UploadFile ==
    /\ booted
    /\ reqCount < MaxRequests
    /\ \E in \in UploadInputs :
         \E out \in {upload_file(in, ai_analyzer, history_file, uploads,
                                 nextId)} :
           /\ Served(out)
           /\ nextId' = IF in.upload = "ok" THEN nextId + 1 ELSE nextId
           /\ request' = Seen("upload", in.upload, <<>>,
                              Called(out, in.reply), 0, TRUE, TRUE)

AnalyzeBoatText ==
    /\ booted
    /\ reqCount < MaxRequests
    /\ \E in \in TextInputs :
         LET Handler(i) == analyze_boat_text(i, ai_analyzer, boat_db,
                                             history_file, uploads, nextId,
                                             reqCount + 1)
         IN  \E o \in Outcomes(Handler, in) :
               /\ Served(o.out)
               /\ nextId' = IF "history" \in Range(o.out.steps)
                             THEN nextId + 1 ELSE nextId
               /\ request' = Seen("analyze-text", "ok", <<>>, "none", 0,
                                  o.io.readOk, o.io.writeOk)

DeleteAnalysis ==
    /\ booted
    /\ reqCount < MaxRequests
    /\ \E id \in 0..nextId, io \in IoOutcomes :
         \E out \in {delete_analysis_route(
                         [history_id |-> id, readOk |-> io.readOk,
                          writeOk |-> io.writeOk], history_file, uploads)} :
           /\ Served(out)
           /\ nextId' = nextId
           /\ request' = Seen("delete", "ok", <<>>, "none", id, io.readOk,
                              io.writeOk)

GetAnalysisHistory ==
    /\ booted
    /\ reqCount < MaxRequests
    /\ \E readOk \in BOOLEAN :
         \E out \in {get_analysis_history([readOk |-> readOk], history_file,
                                          uploads)} :
           /\ Served(out)
           /\ nextId' = nextId
           /\ request' = Seen("history", "ok", <<>>, "none", 0, readOk, TRUE)

GetAnalysisById ==
    /\ booted
    /\ reqCount < MaxRequests
    /\ \E id \in 0..nextId, readOk \in BOOLEAN :
         \E out \in {get_analysis_by_id([history_id |-> id, readOk |-> readOk],
                                        history_file, uploads)} :
           /\ Served(out)
           /\ nextId' = nextId
           /\ request' = Seen("get", "ok", <<>>, "none", id, readOk, TRUE)

Next ==
    \/ InitializeApp
    \/ AnalyzeImage
    \/ UploadFile
    \/ AnalyzeBoatText
    \/ DeleteAnalysis
    \/ GetAnalysisHistory
    \/ GetAnalysisById

Spec == Init /\ [][Next]_vars

-----------------------------------------------------------------------------
(* Properties of the request model (specification Spec) *)

\* a step that serves one request
RequestStep == reqCount' = reqCount + 1

\* the last request reached the analyzer and got a result without 'error'
NonErrorResult ==
    /\ request.route = "analyze"
    /\ request.backend \in {"json", "text"}
    /\ "error" \notin DOMAIN analysis_result

\* the numeric value of a confidence: a number, a numeric string, else 0
NumericConfidence(c) == IF c.kind \in {"num", "str"} THEN c.n ELSE 0

\* confidence >= 30, is_valid_image true, no rejection reason set
PassesGate(r) ==
    /\ NumericConfidence(Get(r, "confidence", Num(0))) >= 30
    /\ Get(r, "is_valid_image", "True") = "True"
    /\ Get(r, "rejection_reason", NoneVal) \in {NoneVal, ""}

\* the last request ended in a success response and made a history entry
Admitted ==
    /\ response.success = "True"
    /\ "history" \in Range(steps)

\* C1: for every non-error result the analyzer returns to /api/analyze, the
\* request is admitted (success response and a history entry) if and only
\* if confidence >= 30, is_valid_image is true and no rejection_reason is
\* set; in every other case the response is success=false.
C1_AdmittedIffGatePasses ==
    NonErrorResult =>
        /\ Admitted <=> PassesGate(analysis_result)
        /\ ~PassesGate(analysis_result) => response.success = "False"

\* C4: when validate_boat_image reports can_proceed = false, /api/analyze
\* answers success=false with the preprocessor's reason, and neither the
\* preprocessing nor the analyzer nor the history store is touched.
C4_Stage0ShortCircuits ==
    [][(/\ RequestStep
        /\ request'.route = "analyze"
        /\ request'.validation # <<>>
        /\ request'.validation["can_proceed"] = "False")
       => /\ response'.success = "False"
          /\ response'.kind = "validation"
          /\ "rejection_reason" \in DOMAIN request'.validation
               => response'.reason = request'.validation["rejection_reason"]
          /\ steps' = <<"validate">>
          /\ analysis_result' = <<>>
          /\ history_file' = history_file]_vars

\* C4 witness: an analyzer is available and the request was rejected at
\* Stage 0
C4_Witness ==
    /\ ai_analyzer # "None"
    /\ request.route = "analyze"
    /\ request.validation # <<>>
    /\ request.validation["can_proceed"] = "False"
    /\ response.kind = "validation"

\* the history entry the last response names is the one just inserted
AppendedAndReturned ==
    /\ response.success = "True"
    /\ "history" \in Range(steps)
    /\ response.history_id # 0
    /\ request.writeOk =>
         /\ history_file # <<>>
         /\ history_file[1].id = response.history_id

\* C7: every result that passes all gate stages in /api/analyze, and every
\* result synthesized in /api/analyze-text, is appended to the history
\* store and the request ends in a success response carrying that entry's
\* history_id, also for a structured reply carrying only some fields.
C7_AdmittedIsAppended ==
    /\ (NonErrorResult /\ PassesGate(analysis_result)) => AppendedAndReturned
    /\ (request.route = "analyze-text" /\ "synthesis" \in Range(steps))
         => AppendedAndReturned

\* C8: a failing backend call yields a result with an error field and
\* confidence 0, and /api/analyze reports every error-carrying result as
\* the backend-error outcome: never in a rejection shape, never with a
\* history entry.
C8_BackendErrorIsDistinct ==
    [][(RequestStep /\ request'.route = "analyze")
       => /\ request'.backend = "raise"
               => /\ "error" \in DOMAIN analysis_result'
                  /\ analysis_result'["confidence"] = Num(0)
          /\ "error" \in DOMAIN analysis_result'
               => /\ response'.kind = "backend_error"
                  /\ response'.success = "False"
                  /\ response'.status = 500
                  /\ response'.reason = analysis_result'["error"]
                  /\ "history" \notin Range(steps')
                  /\ history_file' = history_file]_vars

\* C8 witness: the backend call of an /api/analyze request raised
C8_Witness ==
    /\ request.route = "analyze"
    /\ request.backend = "raise"
    /\ response.kind = "backend_error"

\* C9: with no analyzer selected, every analysis request fails at once with
\* the 'AI analyzer not available' error: nothing was validated or
\* preprocessed, no file stays in the upload folder, no history entry.
C9_UnavailableFailsFast ==
    [][(/\ RequestStep
        /\ ai_analyzer = "None"
        /\ request'.route \in {"analyze", "upload", "analyze-text"}
        /\ request'.upload = "ok")
       => /\ response'.kind = "analyzer_unavailable"
          /\ steps' = <<>>
          /\ uploads' = uploads
          /\ history_file' = history_file]_vars

\* C10: delete_analysis with an id no stored entry has leaves the persisted
\* history unchanged and reports success, also when the history file
\* cannot be read at the moment of the delete.
C10_DeleteAbsentIsNoOp ==
    [][(/\ RequestStep
        /\ request'.route = "delete"
        /\ request'.history_id \notin Ids(history_file))
       => /\ history_file' = history_file
          /\ response'.success = "True"]_vars

\* the last request read or wrote the history file and that I/O failed
HistoryIoFailed(req) ==
    /\ req.route \in {"analyze", "analyze-text", "history", "delete"}
    /\ ~req.readOk \/ ~req.writeOk

\* C11: a failed read or write of the history file never fails a request:
\* /api/analyze, /api/analyze-text, /api/history and DELETE
\* /api/history/<id> still answer 200 with their normal success body.
C11_HistoryFailureNeverFails ==
    [][(RequestStep /\ HistoryIoFailed(request'))
       => /\ response'.status = 200
          /\ response'.success = "True"
          /\ response'.kind =
               (CASE request'.route = "history" -> "history"
                  [] request'.route = "delete" -> "deleted"
                  [] OTHER -> "ok")]_vars

\* C11 witness: an /api/analyze request whose history read and write both
\* failed was answered with success
C11_Witness ==
    /\ request.route = "analyze"
    /\ ~request.readOk
    /\ ~request.writeOk
    /\ response.success = "True"
    /\ response.history_id # 0

\* the last request called the backend of /api/analyze and it answered
BackendAnswered(req) ==
    /\ req.route = "analyze"
    /\ req.backend \in {"json", "text"}

\* C14: the confidence of every normalized result is numeric: a missing or
\* non-numeric confidence counts as 0, the result is then a low-confidence
\* rejection and not a backend error, and the confidence kept in the
\* returned result and in every history entry is a number.
C14_ConfidenceIsNumeric ==
    /\ BackendAnswered(request) =>
         /\ "error" \notin DOMAIN analysis_result
         /\ response.kind # "backend_error"
         /\ "confidence" \in DOMAIN analysis_result
              => analysis_result["confidence"].kind = "num"
    /\ \A i \in 1..Len(history_file) :
         history_file[i].confidence.kind = "num"

\* the result the last /api/analyze request got was not admissible: an
\* error result, or one that fails Stage 1 or Stage 2
Inadmissible(req, result) ==
    /\ req.route = "analyze"
    /\ req.backend # "none"
    /\ "error" \in DOMAIN result \/ ~PassesGate(result)

\* C15: an /api/analyze request rejected at Stage 1 or Stage 2, or ending
\* in a backend error, leaves the history store unchanged:
\* add_analysis_to_history is not called and the file is the same.
C15_RejectionLeavesHistory ==
    [][(RequestStep /\ Inadmissible(request', analysis_result'))
       => /\ response'.success = "False"
          /\ "history" \notin Range(steps')
          /\ history_file' = history_file]_vars

\* C15 witness: with one entry stored, a request was rejected on the
\* backend's self-report and the entry is still the stored history
C15_Witness ==
    /\ Len(history_file) = 1
    /\ request.route = "analyze"
    /\ request.backend = "json"
    /\ response.kind = "ai_validation"
    /\ reqCount = 2

\* C16: when /api/analyze has written the temporary image file and the
\* request ends in a Stage 1 or Stage 2 rejection, a backend error or an
\* unavailable analyzer, the file is gone when the response is returned.
C16_TempFileRemovedOnRejection ==
    [][(/\ RequestStep
        /\ request'.route = "analyze"
        /\ "tempfile" \in Range(steps')
        /\ response'.kind \in {"ai_validation", "low_confidence",
                               "backend_error", "analyzer_unavailable"})
       => TempPath \notin uploads']_vars

\* C19: an entry of the history store never changes, and it leaves the
\* store only when it is deleted by its id or cut off by the cap.
C19_EntriesImmutable ==
    [][\A i \in 1..Len(history_file) :
         LET entry == history_file[i]
         IN  /\ \A j \in 1..Len(history_file') :
                  history_file'[j].id = entry.id => history_file'[j] = entry
             /\ \/ entry.id \in Ids(history_file')
                \/ /\ request'.route = "delete"
                   /\ request'.history_id = entry.id
                \/ /\ i >= HistoryCap
                   /\ Len(history_file') = HistoryCap]_vars

\* C20: /api/analyze-text runs no gate: once the lookup finds a record the
\* synthesized result is summarized, appended to the history and returned
\* with success=true whatever its confidence, and the backend model is
\* never invoked.
C20_CatalogPathUngated ==
    [][(/\ RequestStep
        /\ request'.route = "analyze-text"
        /\ "synthesis" \in Range(steps'))
       => /\ steps' = <<"lookup", "synthesis", "summary", "history">>
          /\ response'.success = "True"
          /\ response'.status = 200
          /\ response'.analysis = analysis_result'
          /\ response'.summary # <<>>
          /\ response'.history_id = nextId
          /\ request'.writeOk
               => /\ history_file' # <<>>
                  /\ history_file'[1].id = nextId
                  /\ history_file'[1].analysis = analysis_result']_vars

\* C20 witness: a catalog record was found and answered with success
C20_Witness ==
    /\ request.route = "analyze-text"
    /\ steps = <<"lookup", "synthesis", "summary", "history">>
    /\ response.success = "True"
    /\ analysis_result["confidence"] = Num(80)
    /\ history_file # <<>>

\* the entries of a history other than those with the id, in their order
OthersInOrder(history, id) ==
    LET Other(item) == item.id # id
    IN  SelectSeq(history, Other)

\* C22: a delete removes exactly the stored entries with the given id and
\* keeps all others in their order; it is idempotent, a second delete of
\* the same id leaving the history as the first left it; both report
\* success.
C22_DeleteRemovesExactlyId ==
    [][(RequestStep /\ request'.route = "delete")
       => /\ response'.success = "True"
          /\ request'.writeOk
               => history_file' =
                      OthersInOrder(history_file, request'.history_id)
          /\ (/\ request.route = "delete"
              /\ request.writeOk
              /\ request.history_id = request'.history_id)
               => history_file' = history_file]_vars

\* C23: when the analyzer returns an error result to /upload, the response
\* is not success=true.
C23_UploadPropagatesBackendError ==
    (/\ request.route = "upload"
     /\ request.backend # "none"
     /\ "error" \in DOMAIN analysis_result)
        => response.success # "True"

\* how many times a request invoked the backend model
BackendInvocations(ran) == Cardinality({i \in 1..Len(ran) : ran[i] = "backend"})

\* C24: a request invokes the backend model at most once; a failed
\* invocation is not repeated and the request ends with the error result:
\* the backend-error response of /api/analyze, the error-carrying analysis
\* of /upload.
C24_NoRetries ==
    [][RequestStep
       => /\ BackendInvocations(steps') <= 1
          /\ request'.backend = "raise"
               => /\ BackendInvocations(steps') = 1
                  /\ "error" \in DOMAIN analysis_result'
                  /\ analysis_result'["confidence"] = Num(0)
                  /\ request'.route = "analyze"
                       => response'.kind = "backend_error"
                  /\ request'.route = "upload"
                       => "error" \in DOMAIN response'.analysis]_vars

\* C24 witness: an /api/analyze request whose single backend invocation
\* raised ended right after it
C24_Witness ==
    /\ request.route = "analyze"
    /\ request.backend = "raise"
    /\ steps = <<"validate", "preprocess", "tempfile", "backend">>
    /\ response.status = 500

\* the analyzer answered the last request with a result that has no error
\* and is invalid or of confidence below the floor
MustBeRejected(req, result) ==
    /\ req.route \in {"analyze", "upload"}
    /\ req.backend \in {"json", "text"}
    /\ "error" \notin DOMAIN result
    /\ \/ Get(result, "is_valid_image", "True") # "True"
       \/ NumericConfidence(Get(result, "confidence", Num(0)))
             < ConfidenceFloor

\* C25: every non-error result of the normalizer whose is_valid_image is
\* false or whose coerced confidence is below 30 carries a non-empty
\* rejection_reason, so /api/analyze rejects it at Stage 1 and Stage 2 is
\* never the stage that rejects.
C25_LowOrInvalidCarriesReason ==
    /\ MustBeRejected(request, analysis_result)
         => /\ "rejection_reason" \in DOMAIN analysis_result
            /\ analysis_result["rejection_reason"] \notin {NoneVal, ""}
            /\ request.route = "analyze" => response.kind = "ai_validation"
    /\ response.kind # "low_confidence"

\* C25 witness: a reply of confidence 29 with no reason of its own was
\* given the low-confidence reason and rejected at Stage 1
C25_Witness ==
    /\ request.route = "analyze"
    /\ request.backend = "json"
    /\ analysis_result["confidence"] = Num(29)
    /\ analysis_result["is_valid_image"] = "True"
    /\ analysis_result["rejection_reason"] = LowConfidenceReason
    /\ response.kind = "ai_validation"

\* C27: the history_id of a success response of /api/analyze or
\* /api/analyze-text names a persisted entry: a get by that id right after
\* returns it, also when the history write of the request failed.
C27_HistoryIdIsPersisted ==
    [][(/\ RequestStep
        /\ request.route \in {"analyze", "analyze-text"}
        /\ response.success = "True"
        /\ request'.route = "get"
        /\ request'.readOk
        /\ request'.history_id = response.history_id)
       => /\ response'.kind = "found"
          /\ response'.analysis.id = response.history_id]_vars

\* C28: an append never removes a persisted entry except by the cap, also
\* when the load of the history fails to read or decode the file.
C28_AppendKeepsEntries ==
    [][(RequestStep /\ "history" \in Range(steps'))
       => \A i \in 1..Len(history_file) :
            \/ history_file[i].id \in Ids(history_file')
            \/ /\ i >= HistoryCap
               /\ Len(history_file') = HistoryCap]_vars

\* C29: the summary field of the history entry made for a request equals
\* the summary returned to the caller, on the AI path and on the catalog
\* path.
C29_EntrySummaryIsReturnedSummary ==
    (Admitted /\ request.writeOk)
        => /\ history_file # <<>>
           /\ history_file[1].id = response.history_id
           /\ history_file[1].summary = response.summary

-----------------------------------------------------------------------------
(* The provider selection alone (specification SpecInit): initialize_app   *)
(* under every environment                                                 *)

InitBoot ==
    /\ env \in Envs
    /\ booted = FALSE
    /\ ai_analyzer = "None"
    /\ boat_db = FALSE
    /\ history_file = <<>>
    /\ uploads = {}
    /\ nextId = 1
    /\ reqCount = 0
    /\ request = NoRequest
    /\ analysis_result = <<>>
    /\ response = Resp(0, "absent", "none")
    /\ steps = <<>>
    /\ workers = Idle
    /\ appended = {}
    /\ deleted = {}
    /\ boat_data = <<>>
    /\ synth = <<>>
    /\ raw_reply = <<>>

NextBoot == InitializeApp

SpecInit == InitBoot /\ [][NextBoot]_vars

\* the first attempt, in the order blob, file, API key, that is present and
\* whose constructor succeeds
FirstWorkingAttempt(e) ==
    IF e.blob = "wellformed" /\ e.blobCtor = "ok" THEN "vertex_env"
    ELSE IF e.fileExists /\ e.fileCtor = "ok" THEN "vertex_file"
    ELSE IF e.apiKey /\ e.geminiCtor = "ok" THEN "gemini"
    ELSE "None"

\* C5: initialize_app tries the credentials blob, the credentials file and
\* the API key in this order, the first attempt that constructs wins, and
\* a failed earlier attempt never keeps a later one from being tried;
\* ai_analyzer is None only if all three are absent or fail.
C5_FirstWorkingAttemptWins ==
    booted => ai_analyzer = FirstWorkingAttempt(env)

-----------------------------------------------------------------------------
(* The history cap (specification SpecCap): sequential calls of            *)
(* add_analysis_to_history with working persistence                        *)

\* the analysis handed to the n-th call
Workload(n) ==
    Put(Put(ParseTextResponse(<<"a", "Bavaria", "sailing yacht">>),
            "image_name", FileName),
        "confidence", IF n % 2 = 0 THEN Num(85) ELSE Num(30))

InitCap ==
    /\ env \in {e \in ServingEnvs : e.apiKey /\ e.csv}
    /\ booted = TRUE
    /\ ai_analyzer = "gemini"
    /\ boat_db = TRUE
    /\ history_file = <<>>
    /\ uploads = {}
    /\ nextId = 1
    /\ reqCount = 0
    /\ request = NoRequest
    /\ analysis_result = <<>>
    /\ response = Resp(0, "absent", "none")
    /\ steps = <<>>
    /\ workers = Idle
    /\ appended = {}
    /\ deleted = {}
    /\ boat_data = <<>>
    /\ synth = <<>>
    /\ raw_reply = <<>>

AppendAnalysis ==
    /\ nextId <= MaxAppends
    /\ \E added \in {add_analysis_to_history(history_file, Workload(nextId),
                                             nextId, nextId, TRUE, TRUE)} :
         /\ history_file' = added.file
         /\ analysis_result' = added.entry.analysis
    /\ nextId' = nextId + 1
    /\ UNCHANGED <<env, booted, ai_analyzer, boat_db, uploads, reqCount,
                   request, response, steps, workers, appended, deleted,
                   boat_data, synth,
                   raw_reply>>

NextCap == AppendAnalysis

SpecCap == InitCap /\ [][NextCap]_vars

\* C2: after n sequential appends the history holds exactly the
\* min(n, 50) most recently appended entries, newest first, and never more
\* than 50; the n-th append has id n, so nextId - 1 appends have returned.
C2_CapKeepsNewest ==
    /\ Len(history_file) <= 50
    /\ Len(history_file) = (IF nextId - 1 < 50 THEN nextId - 1 ELSE 50)
    /\ \A i \in 1..Len(history_file) : history_file[i].id = nextId - i

\* C2 witness: 60 appends have returned; entries 60 down to 11 are stored
C2_Witness ==
    /\ nextId = 61
    /\ Len(history_file) = 50
    /\ history_file[1].id = 60
    /\ history_file[50].id = 11

-----------------------------------------------------------------------------
(* Concurrent requests on the history store (specification SpecConc): a    *)
(* worker runs add_analysis_to_history or delete_analysis in two steps,    *)
(* the load of the file and the save of the list it built from it; the     *)
(* code holds no lock between them.                                        *)

Workers == 1..NumWorkers

IdleWorker == [pc |-> "idle", id |-> 0, history |-> <<>>]

InitConc ==
    /\ env \in {e \in ServingEnvs : e.apiKey /\ e.csv}
    /\ booted = TRUE
    /\ ai_analyzer = "gemini"
    /\ boat_db = TRUE
    /\ history_file = <<>>
    /\ uploads = {}
    /\ nextId = 1
    /\ reqCount = 0
    /\ request = NoRequest
    /\ analysis_result = <<>>
    /\ response = Resp(0, "absent", "none")
    /\ steps = <<>>
    /\ workers = [w \in Workers |-> IdleWorker]
    /\ appended = {}
    /\ deleted = {}
    /\ boat_data = <<>>
    /\ synth = <<>>
    /\ raw_reply = <<>>

ConcFrame ==
    UNCHANGED <<env, booted, ai_analyzer, boat_db, uploads, request,
                analysis_result, response, steps, boat_data, synth,
                   raw_reply>>

\* add_analysis_to_history up to history.insert (lines 67-83)
AddLoad(w) ==
    /\ workers[w].pc = "idle"
    /\ reqCount < MaxConcOps
    /\ workers' = [workers EXCEPT ![w] =
            [pc |-> "adding", id |-> nextId,
             history |->
                 InsertFront(load_analysis_history(history_file, TRUE),
                             HistoryEntry(nextId, reqCount + 1,
                                          Workload(nextId)))]]
    /\ nextId' = nextId + 1
    /\ reqCount' = reqCount + 1
    /\ UNCHANGED <<history_file, appended, deleted>>
    /\ ConcFrame

\* the cap and save_analysis_history (lines 86-90)
AddSave(w) ==
    /\ workers[w].pc = "adding"
    /\ history_file' =
         save_analysis_history(history_file, CapHistory(workers[w].history),
                               TRUE)
    /\ appended' = appended \cup {workers[w].id}
    /\ workers' = [workers EXCEPT ![w] = IdleWorker]
    /\ UNCHANGED <<nextId, reqCount, deleted>>
    /\ ConcFrame

\* delete_analysis up to the filter (lines 861-862)
DeleteLoad(w) ==
    /\ workers[w].pc = "idle"
    /\ reqCount < MaxConcOps
    /\ \E id \in 1..nextId :
         /\ workers' = [workers EXCEPT ![w] =
                 [pc |-> "deleting", id |-> id,
                  history |->
                      WithoutId(load_analysis_history(history_file, TRUE),
                                id)]]
         /\ deleted' = deleted \cup {id}
    /\ reqCount' = reqCount + 1
    /\ UNCHANGED <<history_file, nextId, appended>>
    /\ ConcFrame

\* save_analysis_history of delete_analysis (line 863)
DeleteSave(w) ==
    /\ workers[w].pc = "deleting"
    /\ history_file' =
         save_analysis_history(history_file, workers[w].history, TRUE)
    /\ workers' = [workers EXCEPT ![w] = IdleWorker]
    /\ UNCHANGED <<nextId, reqCount, appended, deleted>>
    /\ ConcFrame

NextConc ==
    \E w \in Workers :
        \/ AddLoad(w)
        \/ AddSave(w)
        \/ DeleteLoad(w)
        \/ DeleteSave(w)

SpecConc == InitConc /\ [][NextConc]_vars

\* C3: concurrent add_analysis_to_history / delete_analysis calls run
\* load -> insert -> cap -> save as one critical section, so no update is
\* lost: once every call has returned, every entry appended and not
\* deleted is in the persisted history (the cap is out of reach here).
C3_NoLostUpdate ==
    (\A w \in Workers : workers[w].pc = "idle")
        => (appended \ deleted) \subseteq Ids(history_file)

-----------------------------------------------------------------------------
(* The catalog synthesis alone (specification SpecSynth): the synthesis    *)
(* functions applied to every record of SynthRecords                       *)

BoostedFields ==
    <<"brand", "model", "year_built", "length", "price", "engine_type",
      "hull_type">>

\* a catalog value per field: left out, NaN, empty, or a value
FieldOpts == {<<>>, <<"NaN">>, <<"">>, <<"value">>}

RECURSIVE WithFields(_, _, _)
WithFields(rec, choice, i) ==
    IF i > Len(BoostedFields) THEN rec
    ELSE WithFields(With(rec, BoostedFields[i], choice[i]), choice, i + 1)

\* the fields each synthesized section names
Sections ==
    [technical_specs |-> TechnicalFields,
     design_analysis |->
         {"hull_design", "cabin_layout", "deck_features", "aerodynamics"},
     market_positioning |->
         {"target_market", "competitors", "unique_selling_points",
          "ideal_use_cases"},
     historical_context |->
         {"design_era", "manufacturer_history", "model_evolution",
          "market_reception"}]

\* a catalog value of a section field: left out, NaN, or a value
SectionOpts == {<<>>, <<"NaN">>, <<"value">>}

\* records that differ in one field of each section
SectionRecords ==
    {With(With(With(With([title |-> "Bavaria 34"],
                         "engine_power", t), "hull_design", d),
               "target_market", m), "design_era", h) :
        t \in SectionOpts, d \in SectionOpts, m \in SectionOpts,
        h \in SectionOpts}

\* records that differ in the two naming fields no boost counts
NameRecords ==
    {With(With([title |-> "Bavaria 34", brand |-> "Bavaria"],
               "boat_type", t), "model_line", l) :
        t \in SectionOpts, l \in SectionOpts}

SynthRecords ==
    {WithFields([title |-> "Bavaria 34"], choice, 1) :
        choice \in [1..Len(BoostedFields) -> FieldOpts]}
    \cup CatalogRecords \cup SectionRecords \cup NameRecords

InitSynth ==
    /\ env \in {e \in ServingEnvs : e.apiKey /\ e.csv}
    /\ booted = TRUE
    /\ ai_analyzer = "gemini"
    /\ boat_db = TRUE
    /\ history_file = <<>>
    /\ uploads = {}
    /\ nextId = 1
    /\ reqCount = 0
    /\ request = NoRequest
    /\ analysis_result = <<>>
    /\ response = Resp(0, "absent", "none")
    /\ steps = <<>>
    /\ workers = Idle
    /\ appended = {}
    /\ deleted = {}
    /\ boat_data \in SynthRecords
    /\ synth = <<>>
    /\ raw_reply = <<>>

\* lines 915-918: clean the record, then synthesize
Synthesize ==
    /\ synth = <<>>
    /\ synth' = create_analysis_from_boat_data(
                    clean_single_boat_data(boat_data))
    /\ UNCHANGED <<env, booted, ai_analyzer, boat_db, history_file, uploads,
                   nextId, reqCount, request, analysis_result, response,
                   steps, workers, appended, deleted, boat_data, raw_reply>>

NextSynth == Synthesize

SpecSynth == InitSynth /\ [][NextSynth]_vars

\* the catalog record holds a value for the field (not missing, not NaN,
\* not empty)
Present(field) ==
    /\ field \in DOMAIN boat_data
    /\ boat_data[field] \notin {"NaN", ""}

Points(field, points) == IF Present(field) THEN points ELSE 0

RawScore ==
    50 + Points("brand", 10) + Points("model", 10) + Points("year_built", 10)
       + Points("length", 5) + Points("price", 5) + Points("engine_type", 5)
       + Points("hull_type", 5)

PresentFields == {BoostedFields[i] : i \in {j \in 1..7 : Present(BoostedFields[j])}}

\* C6: the synthesized confidence is min(95, 50 + 10 for each of brand,
\* model, year_built present + 5 for each of length, price, engine_type,
\* hull_type present); brand+model+year alone give 80, all seven give 95.
C6_ConfidenceFormula ==
    synth # <<>> =>
        /\ synth["confidence"] = Num(IF RawScore > 95 THEN 95 ELSE RawScore)
        /\ PresentFields = {"brand", "model", "year_built"}
             => synth["confidence"] = Num(80)
        /\ PresentFields = Range(BoostedFields)
             => synth["confidence"] = Num(95)

\* C6 witness: all seven fields present, the raw sum 100 capped to 95
C6_Witness ==
    /\ synth # <<>>
    /\ PresentFields = Range(BoostedFields)
    /\ RawScore = 100
    /\ synth["confidence"] = Num(95)

\* the fragment of a clue field, when the record holds a value for it
ExpectedClue(field, label) ==
    IF Present(field) THEN <<[label |-> label, value |-> boat_data[field]]>>
    ELSE <<>>

\* C17: the identification clues are the fragments 'Brand: <brand>',
\* 'Model: <model>', 'Year: <year_built>' of exactly the present fields, in
\* this order (none when no field is present); the record {title 'Bavaria
\* 34', brand 'Bavaria', model '34', year_built '2015'} synthesizes to
\* confidence 80 and the clues Brand: Bavaria; Model: 34; Year: 2015.
C17_IdentificationClues ==
    synth # <<>> =>
        /\ synth["identification_clues"] =
             ExpectedClue("brand", "Brand") \o ExpectedClue("model", "Model")
             \o ExpectedClue("year_built", "Year")
        /\ boat_data = [title |-> "Bavaria 34", brand |-> "Bavaria",
                        model |-> "34", year_built |-> "2015"]
             => /\ synth["confidence"] = Num(80)
                /\ synth["identification_clues"] =
                     <<[label |-> "Brand", value |-> "Bavaria"],
                       [label |-> "Model", value |-> "34"],
                       [label |-> "Year", value |-> "2015"]>>

\* C17 witness: the Bavaria 34 record has been synthesized
C17_Witness ==
    /\ boat_data = [title |-> "Bavaria 34", brand |-> "Bavaria",
                    model |-> "34", year_built |-> "2015"]
    /\ synth # <<>>
    /\ Len(synth["identification_clues"]) = 3
    /\ synth["confidence"] = Num(80)

\* the fixed placeholder of a section field
Placeholder(field) ==
    CASE field = "hull_design" -> "Design information not available"
      [] field = "cabin_layout" -> "Cabin layout information not available"
      [] field = "deck_features" -> "Deck features information not available"
      [] field = "aerodynamics" -> "Aerodynamics information not available"
      [] field = "target_market" -> "Market information not available"
      [] field = "competitors" -> "Competitor information not available"
      [] field = "unique_selling_points" -> "USP information not available"
      [] field = "ideal_use_cases" -> "Use case information not available"
      [] field = "design_era" -> "Era information not available"
      [] field = "manufacturer_history" -> "Manufacturer history not available"
      [] field = "model_evolution" -> "Model evolution not available"
      [] field = "market_reception" -> "Market reception not available"
      [] OTHER -> "Information not available"

\* C18: in each of the four synthesized sections every named field holds
\* the catalog value when the catalog field is present and a fixed 'not
\* available' placeholder when it is absent, whether the key is missing
\* or holds a null, the fields of technical_specs included.
C18_SectionsCopyOrPlaceholder ==
    synth # <<>> =>
        \A section \in DOMAIN Sections :
            \A field \in Sections[section] :
                /\ field \in DOMAIN synth[section]
                /\ synth[section][field] =
                     (IF Present(field) THEN boat_data[field]
                      ELSE Placeholder(field))

\* the four naming fields of a synthesized analysis
NamingFields == {"boat_type", "brand", "model", "model_line"}

\* the catalog record carries the key with a value that is not null
HoldsValue(field) ==
    /\ field \in DOMAIN boat_data
    /\ ~IsNaN(boat_data[field])

\* C21: the synthesized boat_type, brand, model and model_line equal the
\* catalog value when the catalog holds one and 'Unknown' when it does
\* not, whether the key is missing or the cleaned record carries it with
\* a null value.
C21_NamingFieldsValueOrUnknown ==
    synth # <<>> =>
        \A field \in NamingFields :
            synth[field] =
                (IF HoldsValue(field) THEN boat_data[field] ELSE "Unknown")

\* C26: the synthesized confidence is a multiple of 5 between 50 and 95,
\* so a catalog result never falls below the confidence floor of 30.
C26_ConfidenceRange ==
    synth # <<>> =>
        /\ synth["confidence"].kind = "num"
        /\ synth["confidence"].n % 5 = 0
        /\ synth["confidence"].n >= BaseConfidence
        /\ synth["confidence"].n <= ConfidenceCap
        /\ synth["confidence"].n >= ConfidenceFloor

\* a record with no boosted field was scored at the base, and one with a
\* single 5-point field at 55
C26_Witness ==
    /\ synth # <<>>
    /\ PresentFields = {"length"}
    /\ synth["confidence"] = Num(55)

-----------------------------------------------------------------------------
(* The response normalizer alone (specification SpecNorm): every reply     *)
(* text of at most MaxReplyLen tokens is normalized                        *)

ReplyTokens ==
    {"{", "}"} \cup MemberTokens
    \cup {"Bavaria", "beneteau", "sailing yacht", "Catamaran", "2015"}

ReplyTexts == UNION {[1..n -> ReplyTokens] : n \in 0..MaxReplyLen}

InitNorm ==
    /\ env \in {e \in ServingEnvs : e.apiKey /\ e.csv}
    /\ booted = TRUE
    /\ ai_analyzer = "gemini"
    /\ boat_db = TRUE
    /\ history_file = <<>>
    /\ uploads = {}
    /\ nextId = 1
    /\ reqCount = 0
    /\ request = NoRequest
    /\ analysis_result = <<>>
    /\ response = Resp(0, "absent", "none")
    /\ steps = <<>>
    /\ workers = Idle
    /\ appended = {}
    /\ deleted = {}
    /\ boat_data = <<>>
    /\ synth = <<>>
    /\ raw_reply \in ReplyTexts

\* line 169 / line 91: the backend answers the reply text, or the call
\* raises and there is no text
BackendOutcomes(text) ==
    {StructuredExtraction(text)}
    \cup (IF text = <<>> THEN {RaiseReply} ELSE {})

\* lines 169-224: the reply text is extracted and post-processed
NormalizeReply ==
    /\ steps = <<>>
    /\ \E reply \in BackendOutcomes(raw_reply) :
         /\ analysis_result' = analyze_boat_image_from_bytes(reply)
         /\ steps' = IF reply.kind = "raise" THEN <<"raise">>
                     ELSE <<"normalize">>
    /\ UNCHANGED <<env, booted, ai_analyzer, boat_db, history_file, uploads,
                   nextId, reqCount, request, response, workers, appended,
                   deleted, boat_data, synth, raw_reply>>

\* lines 91-148: the same through the entry point that takes a file path
NormalizeReplyAtPath ==
    /\ steps = <<>>
    /\ \E reply \in BackendOutcomes(raw_reply) :
         /\ analysis_result' = analyze_boat_image(reply, UniquePath(nextId))
         /\ steps' = IF reply.kind = "raise" THEN <<"raise_path">>
                     ELSE <<"normalize_path">>
    /\ UNCHANGED <<env, booted, ai_analyzer, boat_db, history_file, uploads,
                   nextId, reqCount, request, response, workers, appended,
                   deleted, boat_data, synth, raw_reply>>

NextNorm ==
    \/ NormalizeReply
    \/ NormalizeReplyAtPath

SpecNorm == InitNorm /\ [][NextNorm]_vars

Normalized == steps = <<"normalize">>

\* the positions of the first "{" and of the last "}" of the reply
Opens == {i \in 1..Len(raw_reply) : raw_reply[i] = "{"}
Closes == {i \in 1..Len(raw_reply) : raw_reply[i] = "}"}
FirstOpen == CHOOSE i \in Opens : \A j \in Opens : i <= j
LastClose == CHOOSE i \in Closes : \A j \in Closes : j <= i

\* the tokens from the first "{" to the last "}" form a JSON object
WellFormedObject ==
    /\ Opens # {}
    /\ Closes # {}
    /\ FirstOpen < LastClose
    /\ \A i \in (FirstOpen + 1)..(LastClose - 1) :
         raw_reply[i] \in MemberTokens

\* the value the object gives a key: that of the last member with the key
Written(key) ==
    {i \in (FirstOpen + 1)..(LastClose - 1) : MemberKey(raw_reply[i]) = key}

LastWritten(key) ==
    MemberValue(raw_reply[CHOOSE i \in Written(key) :
                              \A j \in Written(key) : j <= i])

\* C12: a reply whose substring from the first "{" to the last "}" parses
\* as a JSON object normalizes to that object's fields unchanged, with
\* is_valid_image defaulted to True and rejection_reason to None when the
\* reply omitted them, and with model_used and analyzer_type attached.
C12_StructuredReplyUnchanged ==
    (Normalized /\ WellFormedObject) =>
        /\ \A key \in {"boat_type", "confidence", "is_valid_image"} :
             Written(key) # {} =>
                 /\ key \in DOMAIN analysis_result
                 /\ analysis_result[key] = LastWritten(key)
        /\ Written("is_valid_image") = {} =>
             Get(analysis_result, "is_valid_image", NoneVal) = "True"
        /\ Get(analysis_result, "rejection_reason", "unset") = NoneVal
        /\ Get(analysis_result, "model_used", NoneVal) = "gemini-1.5-flash"
        /\ Get(analysis_result, "analyzer_type", NoneVal) = "regular_gemini"

\* the first entry of a vocabulary list that occurs in the reply
FirstOfList(list) ==
    LET hits == {i \in 1..Len(list) :
                    \E p \in 1..Len(raw_reply) : list[i] \in Mentions(raw_reply[p])}
    IN  IF hits = {} THEN "Unknown"
        ELSE Title(list[CHOOSE i \in hits : \A j \in hits : i <= j])

\* the leftmost year of the reply
LeftmostYear ==
    LET hits == {p \in 1..Len(raw_reply) : raw_reply[p] \in YearTokens}
    IN  IF hits = {} THEN "Unknown"
        ELSE raw_reply[CHOOSE p \in hits : \A q \in hits : p <= q]

\* the scanner's answer: never an error, the vocabulary matches, the year,
\* no key feature, confidence 50
ScannerResult ==
    /\ "error" \notin DOMAIN analysis_result
    /\ DOMAIN ParseTextResponse(raw_reply) \subseteq DOMAIN analysis_result
    /\ analysis_result["boat_type"] = FirstOfList(boat_types)
    /\ analysis_result["brand"] = FirstOfList(brands)
    /\ analysis_result["estimated_year"] = LeftmostYear
    /\ analysis_result["key_features"] = <<>>
    /\ analysis_result["confidence"] = Num(50)

UnknownFields ==
    {"model", "length_estimate", "width_estimate", "hull_material",
     "engine_type", "condition", "price_estimate"}

\* C13 (amended): when structured extraction fails, normalization returns
\* the text scanner's result and never an error: boat_type and brand are
\* the first entries of their lists occurring in the lower-cased text,
\* estimated_year the leftmost year, key_features empty, confidence 50;
\* model, length_estimate, width_estimate, hull_material, engine_type,
\* condition and price_estimate are 'Unknown', and detailed_description
\* holds the reply text.
C13_TextFallbackScanner ==
    (Normalized /\ ~WellFormedObject) =>
        /\ ScannerResult
        /\ \A key \in UnknownFields : analysis_result[key] = "Unknown"
        /\ analysis_result["detailed_description"] = raw_reply

\* C13 witness: a "{" with no later "}", two boat types and two brands
\* against the list order
C13_Witness ==
    /\ Normalized
    /\ raw_reply = <<"{", "Catamaran", "beneteau", "sailing yacht">>
    /\ analysis_result["boat_type"] = "Sailing Yacht"
    /\ analysis_result["brand"] = "Beneteau"
    /\ analysis_result["confidence"] = Num(50)

\* C13 as stated: every field but boat_type, brand, estimated_year,
\* key_features and confidence is 'Unknown', detailed_description included
C13_AllOtherFieldsUnknown ==
    (Normalized /\ ~WellFormedObject) =>
        /\ ScannerResult
        /\ \A key \in UnknownFields : analysis_result[key] = "Unknown"
        /\ analysis_result["detailed_description"] = <<"Unknown">>

\* the path entry point produced the result in analysis_result
NormalizedAtPath == steps \in {<<"normalize_path">>, <<"raise_path">>}

\* what the backend gave the call that produced analysis_result
ReplyGiven ==
    IF steps \in {<<"raise">>, <<"raise_path">>} THEN RaiseReply
    ELSE StructuredExtraction(raw_reply)

\* C30: for the same raw reply, analyze_boat_image and
\* analyze_boat_image_from_bytes return results that agree on every field
\* and differ only in image_path; for a failing backend call both return
\* an error field with confidence 0.
C30_EntryPointsAgree ==
    NormalizedAtPath =>
        \E fromBytes \in {analyze_boat_image_from_bytes(ReplyGiven)} :
            /\ DOMAIN analysis_result = DOMAIN fromBytes \cup {"image_path"}
            /\ \A key \in DOMAIN fromBytes \ {"image_path"} :
                 analysis_result[key] = fromBytes[key]
            /\ analysis_result["image_path"] = UniquePath(nextId)
            /\ steps = <<"raise_path">>
                 => /\ "error" \in DOMAIN analysis_result
                    /\ "error" \in DOMAIN fromBytes
                    /\ analysis_result["confidence"] = Num(0)
                    /\ fromBytes["confidence"] = Num(0)

\* C30 witness: an object holding a boat type and a confidence was
\* normalized through the path entry point and got the validation defaults
\* and the path
C30_Witness ==
    /\ steps = <<"normalize_path">>
    /\ raw_reply = <<"{", "'boat_type': 'Sailing Yacht'", "'confidence': 85",
                     "}">>
    /\ analysis_result["boat_type"] = "Sailing Yacht"
    /\ analysis_result["confidence"] = Num(85)
    /\ analysis_result["is_valid_image"] = "True"
    /\ analysis_result["rejection_reason"] = NoneVal
    /\ analysis_result["image_path"] = UniquePath(nextId)

====
